---- MODULE Spec2Model ----
(***************************************************************************)
(* Model of the obscura_per program (programs/obscura-per/src/lib.rs): one *)
(* vault account, its permission accounts, and the eight instructions.     *)
(*                                                                         *)
(* Every instruction handler is an operator that takes the deserialized    *)
(* account, works on that in-memory copy exactly in the order of the       *)
(* source statements and returns the outcome together with the copy.       *)
(* Persist writes the copy back only when the handler returned Ok: an Err  *)
(* (a failed require!, a `?` on a failed CPI) or a panic (unwrap on None,  *)
(* arithmetic overflow under overflow-checks) aborts the instruction and   *)
(* the account keeps its old bytes.                                        *)
(*                                                                         *)
(* Amounts, balance and nonce are u64 in the source.  The model keeps the  *)
(* modular structure with a narrow word: MaxU64 stands for u64::MAX.       *)
(***************************************************************************)
EXTENDS Integers, FiniteSets

\* ------------------------------------------------------------------------
\* Bounds
\* ------------------------------------------------------------------------

\* Largest value of the (narrowed) u64 word; stands for 2^64 - 1.
MaxU64 == 2

\* Largest value of the ledger clock.
MaxClock == 1

\* Cap on the lamports the vault account holds; one more than the word so
\* that the checked_add overflow of deposit is met.
MaxTotal == MaxU64 + 1

\* ------------------------------------------------------------------------
\* Keys
\* ------------------------------------------------------------------------

\* Signers that submit instructions.
Identities == {"alice", "bob"}

\* Pubkey::default(): the all-zero key.
ZeroKey == "zero"

\* The key whose base58 form is the TEE_VALIDATOR literal.
TeeKey == "tee"

\* Some other validator key.
PlainKey == "plain"

Validators == {ZeroKey, TeeKey, PlainKey}

\* Keys a permission can be granted to.
Permitted == {"carol"}

VaultIds == {1}

U64 == 0..MaxU64

\* The literal of lib.rs:84.
TEE_VALIDATOR == "FnE6VJT5QNZdedZPnCoLsARgBwoE6DeJNjBs2H1gySXA"

\* Pubkey::to_string: the base58 rendering of the 32 bytes (injective).
to_string(k) ==
    CASE k = ZeroKey  -> "11111111111111111111111111111111"
      [] k = TeeKey   -> "FnE6VJT5QNZdedZPnCoLsARgBwoE6DeJNjBs2H1gySXA"
      [] k = PlainKey -> "MAS1Dt9qreoRMQ14YQuhg8UTZMMzDdKhmkZMECCzk57"
      [] OTHER        -> k

\* ------------------------------------------------------------------------
\* State
\* ------------------------------------------------------------------------

VARIABLES
    vault,            \* the VaultState account (initialized = FALSE: not created)
    perms,            \* the PermissionState accounts that exist
    now,              \* Clock::get()?.unix_timestamp
    lamports,         \* lamports of the vault account above its rent reserve:
                      \* what deposits moved in minus what withdraws moved out
    transferred,      \* history: amounts of the successful private transfers
    last              \* the last instruction submitted: its name and outcome

vars == <<vault, lamports, perms, now, transferred, last>>

\* The account before create_vault ran: no discriminator, zeroed data.
NoVault ==
    [initialized |-> FALSE, owner |-> ZeroKey, vault_id |-> 0, balance |-> 0,
     is_delegated |-> FALSE, delegate_validator |-> ZeroKey, created_at |-> 0,
     last_activity |-> 0, nonce |-> 0, is_private |-> FALSE]

NoOp == [op |-> "none", result |-> "Ok"]

\* ------------------------------------------------------------------------
\* Outcomes
\* ------------------------------------------------------------------------

Ok(v) == [res |-> "Ok", vault |-> v]

Err(e, v) == [res |-> e, vault |-> v]

\* Mutant of Persist: the in-memory copy is written back whatever the outcome.
PersistAlways(v, r) == r.vault

\* Account write-back at instruction exit: only an Ok handler is serialized
\* into the account; an Err or a panic aborts and nothing is written.

Persist(v, r) == IF r.res = "Ok" THEN r.vault ELSE v

\* u64::checked_add(..).unwrap()
checked_add(a, b) == IF a + b > MaxU64 THEN "None" ELSE "Some"

\* u64::checked_sub(..).unwrap()
checked_sub(a, b) == IF a < b THEN "None" ELSE "Some"

\* ------------------------------------------------------------------------
\* Account constraints (#[derive(Accounts)])
\* ------------------------------------------------------------------------

\* DelegateVault, PrivateTransfer, CommitState, UndelegateVault, Deposit:
\* `owner`/`depositor` is any Signer; no constraint ties it to vault.owner.
SignerOnly(v, caller) == "Ok"

\* Mutant of InitAccount: an allocated address is accepted (init_if_needed).
InitAccountIfNeeded(exists) == "Ok"

\* `init`: the system program's create_account fails when the derived
\* address is already allocated.
InitAccount(exists) == IF exists THEN "AlreadyInUse" ELSE "Ok"

\* The address of the vault account: the PDA of [VAULT_SEED, vault_id].
VaultKey(v) == v.vault_id

\* Whether the PDA of [PERMISSION_SEED, vault, permitted] is allocated.
PermissionExists(ps, v, permitted) ==
    \E p \in ps : p.vault = VaultKey(v) /\ p.permitted = permitted

\* Mutant of CreatePermissionAccounts: no owner constraint on the vault.
CreatePermissionAccountsAnySigner(ps, v, caller, permitted) ==
    InitAccount(PermissionExists(ps, v, permitted))

\* CreatePermission: the `init` of the permission account runs first, then
\* constraint = vault.owner == owner.key() @ Unauthorized.
CreatePermissionAccounts(ps, v, caller, permitted) ==
    IF InitAccount(PermissionExists(ps, v, permitted)) # "Ok"
    THEN InitAccount(PermissionExists(ps, v, permitted))
    ELSE IF v.owner = caller THEN "Ok" ELSE "Unauthorized"

\* Withdraw: constraint = vault.owner == owner.key() @ Unauthorized
WithdrawAccounts(v, caller) ==
    IF v.owner = caller THEN "Ok" ELSE "Unauthorized"

\* ------------------------------------------------------------------------
\* Instruction handlers
\* ------------------------------------------------------------------------

create_vault(v, caller, vault_id, t) ==
    Ok([initialized |-> TRUE, owner |-> caller, vault_id |-> vault_id,
        balance |-> 0, is_delegated |-> FALSE, delegate_validator |-> ZeroKey,
        created_at |-> t, last_activity |-> t, nonce |-> 0,
        is_private |-> FALSE])

\* Mutant of delegate_vault: an already delegated vault is rejected.
delegate_vault_once(v, caller, validator, t, cpi_ok) ==
    IF v.is_delegated THEN Err("AccountDelegated", v)
    ELSE LET v1 == [v EXCEPT !.is_delegated = TRUE,
                             !.delegate_validator = validator,
                             !.last_activity = t]
             v2 == IF to_string(validator) = TEE_VALIDATOR
                   THEN [v1 EXCEPT !.is_private = TRUE]
                   ELSE v1
         IN  IF cpi_ok THEN Ok(v2) ELSE Err("ExternalCallFailed", v2)

delegate_vault(v, caller, validator, t, cpi_ok) ==
    LET v1 == [v EXCEPT !.is_delegated = TRUE,
                        !.delegate_validator = validator,
                        !.last_activity = t]
        v2 == IF to_string(validator) = TEE_VALIDATOR
              THEN [v1 EXCEPT !.is_private = TRUE]
              ELSE v1
    IN  IF cpi_ok THEN Ok(v2) ELSE Err("ExternalCallFailed", v2)

\* `vault.nonce += 1`: on overflow a build with overflow-checks panics and a
\* build without them wraps around; `checks` is the build's choice, which
\* the source does not fix.
add_assign_panics(n, k, checks) == n + k > MaxU64 /\ checks

add_assign(n, k) == (n + k) % (MaxU64 + 1)

\* Mutant of private_transfer: no balance require!, wrapping subtraction.
private_transfer_wrapping(v, caller, amount, t, cpi_ok, checks) ==
    IF ~v.is_delegated THEN Err("NotDelegated", v)
    ELSE IF ~(v.owner = caller) THEN Err("Unauthorized", v)
    ELSE LET v1 == [v EXCEPT !.balance = (v.balance - amount) % (MaxU64 + 1)]
         IN  IF add_assign_panics(v1.nonce, 1, checks) THEN Err("Panic", v1)
             ELSE LET v2 == [v1 EXCEPT !.nonce = add_assign(v1.nonce, 1),
                                       !.last_activity = t]
                  IN  IF cpi_ok THEN Ok(v2) ELSE Err("ExternalCallFailed", v2)

\* Mutant of private_transfer: the owner require! runs first.
private_transfer_owner_first(v, caller, amount, t, cpi_ok, checks) ==
    IF ~(v.owner = caller) THEN Err("Unauthorized", v)
    ELSE IF ~v.is_delegated THEN Err("NotDelegated", v)
    ELSE IF ~(v.balance >= amount) THEN Err("InsufficientBalance", v)
    ELSE IF checked_sub(v.balance, amount) = "None" THEN Err("Panic", v)
    ELSE LET v1 == [v EXCEPT !.balance = v.balance - amount]
         IN  IF add_assign_panics(v1.nonce, 1, checks) THEN Err("Panic", v1)
             ELSE LET v2 == [v1 EXCEPT !.nonce = add_assign(v1.nonce, 1),
                                       !.last_activity = t]
                  IN  IF cpi_ok THEN Ok(v2) ELSE Err("ExternalCallFailed", v2)

\* Mutant of private_transfer: no owner require!.
private_transfer_any_signer(v, caller, amount, t, cpi_ok, checks) ==
    IF ~v.is_delegated THEN Err("NotDelegated", v)
    ELSE IF ~(v.balance >= amount) THEN Err("InsufficientBalance", v)
    ELSE IF checked_sub(v.balance, amount) = "None" THEN Err("Panic", v)
    ELSE LET v1 == [v EXCEPT !.balance = v.balance - amount]
         IN  IF add_assign_panics(v1.nonce, 1, checks) THEN Err("Panic", v1)
             ELSE LET v2 == [v1 EXCEPT !.nonce = add_assign(v1.nonce, 1),
                                       !.last_activity = t]
                  IN  IF cpi_ok THEN Ok(v2) ELSE Err("ExternalCallFailed", v2)

private_transfer(v, caller, amount, t, cpi_ok, checks) ==
    IF ~v.is_delegated THEN Err("NotDelegated", v)
    ELSE IF ~(v.balance >= amount) THEN Err("InsufficientBalance", v)
    ELSE IF ~(v.owner = caller) THEN Err("Unauthorized", v)
    ELSE IF checked_sub(v.balance, amount) = "None" THEN Err("Panic", v)
    ELSE LET v1 == [v EXCEPT !.balance = v.balance - amount]
         IN  IF add_assign_panics(v1.nonce, 1, checks) THEN Err("Panic", v1)
             ELSE LET v2 == [v1 EXCEPT !.nonce = add_assign(v1.nonce, 1),
                                       !.last_activity = t]
                  IN  IF cpi_ok THEN Ok(v2) ELSE Err("ExternalCallFailed", v2)

\* Mutant of commit_vault_state: the commit also clears is_delegated.
commit_vault_state_undelegates(v, caller, t, cpi_ok) ==
    LET v1 == [v EXCEPT !.is_delegated = FALSE, !.last_activity = t]
    IN  IF cpi_ok THEN Ok(v1) ELSE Err("ExternalCallFailed", v1)

commit_vault_state(v, caller, t, cpi_ok) ==
    LET v1 == [v EXCEPT !.last_activity = t]
    IN  IF cpi_ok THEN Ok(v1) ELSE Err("ExternalCallFailed", v1)

\* Mutant of undelegate_vault: delegate_validator is not reset.
undelegate_vault_keeps_validator(v, caller, t, cpi_ok) ==
    LET v1 == [v EXCEPT !.is_delegated = FALSE,
                        !.is_private = FALSE,
                        !.last_activity = t]
    IN  IF cpi_ok THEN Ok(v1) ELSE Err("ExternalCallFailed", v1)

\* Mutant of undelegate_vault: is_private is not reset.
undelegate_vault_keeps_private(v, caller, t, cpi_ok) ==
    LET v1 == [v EXCEPT !.is_delegated = FALSE,
                        !.delegate_validator = ZeroKey,
                        !.last_activity = t]
    IN  IF cpi_ok THEN Ok(v1) ELSE Err("ExternalCallFailed", v1)

\* Mutant of undelegate_vault: is_delegated is left set.
undelegate_vault_keeps_delegated(v, caller, t, cpi_ok) ==
    LET v1 == [v EXCEPT !.delegate_validator = ZeroKey,
                        !.is_private = FALSE,
                        !.last_activity = t]
    IN  IF cpi_ok THEN Ok(v1) ELSE Err("ExternalCallFailed", v1)

undelegate_vault(v, caller, t, cpi_ok) ==
    LET v1 == [v EXCEPT !.is_delegated = FALSE,
                        !.delegate_validator = ZeroKey,
                        !.is_private = FALSE,
                        !.last_activity = t]
    IN  IF cpi_ok THEN Ok(v1) ELSE Err("ExternalCallFailed", v1)

\* transfer_ok: the outcome of the system-program transfer CPI.
deposit(v, caller, amount, t, transfer_ok) ==
    IF ~transfer_ok THEN Err("TransferFailed", v)
    ELSE IF checked_add(v.balance, amount) = "None" THEN Err("Panic", v)
    ELSE Ok([v EXCEPT !.balance = v.balance + amount, !.last_activity = t])

\* Mutant of withdraw: the balance require! runs before the delegation one.
withdraw_balance_first(v, caller, amount, t) ==
    IF ~(v.balance >= amount) THEN Err("InsufficientBalance", v)
    ELSE IF ~(~v.is_delegated) THEN Err("AccountDelegated", v)
    ELSE IF ~(v.owner = caller) THEN Err("Unauthorized", v)
    ELSE IF checked_sub(v.balance, amount) = "None" THEN Err("Panic", v)
    ELSE Ok([v EXCEPT !.balance = v.balance - amount, !.last_activity = t])

\* Mutant of withdraw: no balance require!, wrapping subtraction.
withdraw_wrapping(v, caller, amount, t) ==
    IF ~(~v.is_delegated) THEN Err("AccountDelegated", v)
    ELSE IF ~(v.owner = caller) THEN Err("Unauthorized", v)
    ELSE Ok([v EXCEPT !.balance = (v.balance - amount) % (MaxU64 + 1),
                      !.last_activity = t])

\* Mutant of withdraw: the lamports leave but balance is not reduced.
withdraw_uncharged(v, caller, amount, t) ==
    IF ~(~v.is_delegated) THEN Err("AccountDelegated", v)
    ELSE IF ~(v.balance >= amount) THEN Err("InsufficientBalance", v)
    ELSE IF ~(v.owner = caller) THEN Err("Unauthorized", v)
    ELSE Ok([v EXCEPT !.last_activity = t])

withdraw(v, caller, amount, t) ==
    IF ~(~v.is_delegated) THEN Err("AccountDelegated", v)
    ELSE IF ~(v.balance >= amount) THEN Err("InsufficientBalance", v)
    ELSE IF ~(v.owner = caller) THEN Err("Unauthorized", v)
    ELSE IF checked_sub(v.balance, amount) = "None" THEN Err("Panic", v)
    ELSE Ok([v EXCEPT !.balance = v.balance - amount, !.last_activity = t])

\* The new PermissionState account.
create_permission(v, caller, permitted_pubkey, t) ==
    [vault |-> VaultKey(v), permitted |-> permitted_pubkey,
     granted_by |-> caller, granted_at |-> t]

\* An instruction on account v: the accounts constraints run first and the
\* handler (outcome r) only when they pass.
Run(v, accounts, r) == IF accounts = "Ok" THEN r ELSE Err(accounts, v)

\* ------------------------------------------------------------------------
\* Actions: one per instruction
\* ------------------------------------------------------------------------

\* The end of an instruction: the account write-back and the outcome.
Step(op, r) ==
    /\ vault' = Persist(vault, r)
    /\ last' = [op |-> op, result |-> r.res]

CreateVaultBy(caller, id) ==
    /\ Step("create_vault",
            Run(vault, InitAccount(vault.initialized),
                create_vault(vault, caller, id, now)))
    /\ UNCHANGED <<lamports, perms, now, transferred>>

DelegateVaultBy(caller, validator, cpi_ok) ==
    /\ vault.initialized
    /\ Step("delegate_vault",
            Run(vault, SignerOnly(vault, caller),
                delegate_vault(vault, caller, validator, now, cpi_ok)))
    /\ UNCHANGED <<lamports, perms, now, transferred>>

PrivateTransferBy(caller, amount, cpi_ok, overflow_checks) ==
    /\ vault.initialized
    /\ LET r == Run(vault, SignerOnly(vault, caller),
                    private_transfer(vault, caller, amount, now, cpi_ok,
                                     overflow_checks))
       IN  /\ Step("private_transfer", r)
           /\ transferred' = IF r.res = "Ok" THEN transferred + amount
                             ELSE transferred
    /\ UNCHANGED <<lamports, perms, now>>

CommitVaultStateBy(caller, cpi_ok) ==
    /\ vault.initialized
    /\ Step("commit_vault_state",
            Run(vault, SignerOnly(vault, caller),
                commit_vault_state(vault, caller, now, cpi_ok)))
    /\ UNCHANGED <<lamports, perms, now, transferred>>

UndelegateVaultBy(caller, cpi_ok) ==
    /\ vault.initialized
    /\ Step("undelegate_vault",
            Run(vault, SignerOnly(vault, caller),
                undelegate_vault(vault, caller, now, cpi_ok)))
    /\ UNCHANGED <<lamports, perms, now, transferred>>

\* The system transfer moves the lamports in; the whole instruction is
\* undone when the handler then panics.
DepositBy(caller, amount, transfer_ok) ==
    /\ vault.initialized
    /\ lamports + amount <= MaxTotal
    /\ LET r == Run(vault, SignerOnly(vault, caller),
                    deposit(vault, caller, amount, now, transfer_ok))
       IN  /\ Step("deposit", r)
           /\ lamports' = IF r.res = "Ok" THEN lamports + amount ELSE lamports
    /\ UNCHANGED <<perms, now, transferred>>

\* The handler moves the lamports out of the vault account (lib.rs:218-219).
WithdrawBy(caller, amount) ==
    /\ vault.initialized
    /\ LET r == Run(vault, WithdrawAccounts(vault, caller),
                    withdraw(vault, caller, amount, now))
       IN  /\ Step("withdraw", r)
           /\ lamports' = IF r.res = "Ok" THEN lamports - amount ELSE lamports
    /\ UNCHANGED <<perms, now, transferred>>

CreatePermissionBy(caller, permitted) ==
    /\ vault.initialized
    /\ LET a == CreatePermissionAccounts(perms, vault, caller, permitted)
       IN  /\ perms' = IF a = "Ok"
                       THEN perms \cup {create_permission(vault, caller,
                                                          permitted, now)}
                       ELSE perms
           /\ last' = [op |-> "create_permission", result |-> a]
    /\ UNCHANGED <<vault, lamports, now, transferred>>

CreateVault ==
    \E caller \in Identities, id \in VaultIds : CreateVaultBy(caller, id)

DelegateVault ==
    \E caller \in Identities, validator \in Validators, cpi_ok \in BOOLEAN :
        DelegateVaultBy(caller, validator, cpi_ok)

PrivateTransfer ==
    \E caller \in Identities, amount \in U64, cpi_ok \in BOOLEAN,
       overflow_checks \in BOOLEAN :
        PrivateTransferBy(caller, amount, cpi_ok, overflow_checks)

CommitVaultState ==
    \E caller \in Identities, cpi_ok \in BOOLEAN :
        CommitVaultStateBy(caller, cpi_ok)

UndelegateVault ==
    \E caller \in Identities, cpi_ok \in BOOLEAN :
        UndelegateVaultBy(caller, cpi_ok)

Deposit ==
    \E caller \in Identities, amount \in U64, transfer_ok \in BOOLEAN :
        DepositBy(caller, amount, transfer_ok)

Withdraw ==
    \E caller \in Identities, amount \in U64 : WithdrawBy(caller, amount)

CreatePermission ==
    \E caller \in Identities, permitted \in Permitted :
        CreatePermissionBy(caller, permitted)

\* The ledger clock advances between instructions.
Tick ==
    /\ now < MaxClock
    /\ now' = now + 1
    /\ UNCHANGED <<vault, lamports, perms, transferred, last>>

Init ==
    /\ vault = NoVault
    /\ lamports = 0
    /\ perms = {}
    /\ now = 0
    /\ transferred = 0
    /\ last = NoOp

Next ==
    \/ CreateVault
    \/ DelegateVault
    \/ PrivateTransfer
    \/ CommitVaultState
    \/ UndelegateVault
    \/ Deposit
    \/ Withdraw
    \/ CreatePermission
    \/ Tick

Spec == Init /\ [][Next]_vars

\* ------------------------------------------------------------------------
\* Properties
\* ------------------------------------------------------------------------

\* C1: after every successful private_transfer the vault is back in state
\* Local (is_delegated = FALSE), so that the owner can withdraw next.
C1_TransferReturnsLocal ==
    (last.op = "private_transfer" /\ last.result = "Ok") => ~vault.is_delegated

\* C2: in every reachable state is_private holds exactly when
\* delegate_validator is the confidential-execution (TEE) validator.
C2_PrivateIffTee ==
    vault.initialized =>
        (vault.is_private <=> vault.delegate_validator = TeeKey)

\* C3: in every reachable state delegate_validator is the zero key exactly
\* when is_delegated is false.
C3_ZeroIffLocal ==
    vault.initialized =>
        (vault.delegate_validator = ZeroKey <=> ~vault.is_delegated)

\* A step that submits instruction op (every instruction records its name
\* and leaves the clock alone; Tick moves the clock).
Submits(op) == last'.op = op /\ now' = now

\* C4 (as claimed): withdraw on a vault whose is_delegated flag is true fails
\* with AccountDelegated for every caller and every amount and leaves the
\* record unchanged.
C4_WithdrawDelegatedAccountDelegated ==
    [][(Submits("withdraw") /\ vault.is_delegated)
          => \A c \in Identities, a \in U64 :
                WithdrawBy(c, a)
                    => (last'.result = "AccountDelegated" /\ vault' = vault)]_vars

\* C4 (amended): withdraw on a vault whose is_delegated flag is true always
\* fails and leaves the record and the lamports unchanged, for every caller
\* and every amount; the error is AccountDelegated when the caller is the
\* owner and Unauthorized (the Withdraw accounts constraint) when it is not.
C4_WithdrawDelegatedFails ==
    [][(Submits("withdraw") /\ vault.is_delegated)
          => \A c \in Identities, a \in U64 :
                WithdrawBy(c, a)
                    => /\ last'.result = IF c = vault.owner
                                         THEN "AccountDelegated"
                                         ELSE "Unauthorized"
                       /\ vault' = vault
                       /\ lamports' = lamports]_vars

\* A withdraw has just been refused on a delegated vault that holds a balance.
C4_Witness ==
    /\ last = [op |-> "withdraw", result |-> "AccountDelegated"]
    /\ vault.is_delegated
    /\ vault.balance > 0

\* The instructions that call the Delegation Service.
DelegationCalls ==
    {"delegate_vault", "private_transfer", "commit_vault_state",
     "undelegate_vault"}

\* C5: when the external Delegation Service call of delegate_vault,
\* private_transfer, commit_vault_state or undelegate_vault fails, the vault
\* record is exactly what it was before the instruction: none of the
\* updates made before the call is visible.
C5_FailedExternalCallLeavesRecord ==
    [][(last'.op \in DelegationCalls /\ now' = now
                                     /\ last'.result = "ExternalCallFailed")
          => UNCHANGED <<vault, lamports, perms, transferred>>]_vars

\* The external call of a private_transfer has just failed on a delegated
\* vault, after the clock moved on from the record's last_activity.
C5_Witness ==
    /\ last = [op |-> "private_transfer", result |-> "ExternalCallFailed"]
    /\ vault.is_delegated
    /\ vault.last_activity < now

\* C6: a delegate_vault submitted by an identity other than vault.owner does
\* not change is_delegated, delegate_validator or is_private.
C6_DelegateOnlyByOwner ==
    [][Submits("delegate_vault")
          => \A c \in Identities, k \in Validators, ok \in BOOLEAN :
                (DelegateVaultBy(c, k, ok) /\ c # vault.owner)
                    => /\ vault'.is_delegated = vault.is_delegated
                       /\ vault'.delegate_validator = vault.delegate_validator
                       /\ vault'.is_private = vault.is_private]_vars

\* A step that is a successful private_transfer.
TransferSucceeds == Submits("private_transfer") /\ last'.result = "Ok"

\* C7: the nonce never decreases, grows by exactly 1 at each successful
\* private_transfer and is unchanged by every other step.
C7_NonceMonotone ==
    [][/\ vault'.nonce >= vault.nonce
       /\ TransferSucceeds => vault'.nonce = vault.nonce + 1
       /\ ~TransferSucceeds => vault'.nonce = vault.nonce]_vars

\* C8: the recorded balance is never negative and equals deposits minus
\* withdraws (the lamports moved in and out) minus the private transfers,
\* and no withdraw or private_transfer above the balance succeeds.
C8_BalanceLedger ==
    /\ [](vault.balance >= 0 /\ vault.balance = lamports - transferred)
    /\ [][/\ (Submits("withdraw") /\ last'.result = "Ok")
               => \A c \in Identities, a \in U64 :
                     WithdrawBy(c, a) => a <= vault.balance
          /\ TransferSucceeds
               => \A c \in Identities, a \in U64, ok, oc \in BOOLEAN :
                     PrivateTransferBy(c, a, ok, oc) => a <= vault.balance]_vars

\* A withdraw has just succeeded on a vault that also made a private transfer
\* and still holds lamports.
C8_Witness ==
    /\ last = [op |-> "withdraw", result |-> "Ok"]
    /\ transferred > 0
    /\ lamports > 0

\* The errors of the require! checks and accounts constraints.
PreconditionErrors ==
    {"NotDelegated", "InsufficientBalance", "Unauthorized", "AccountDelegated"}

\* C9: an instruction that fails a precondition check leaves the vault record
\* (and the lamports and permissions) unchanged; private_transfer(1, r) on a
\* delegated vault with balance 0 fails with InsufficientBalance.
C9_FailedCheckLeavesRecord ==
    [][/\ last'.result \in PreconditionErrors
             => UNCHANGED <<vault, lamports, perms, transferred>>
       /\ (Submits("private_transfer") /\ vault.is_delegated
                                       /\ vault.balance = 0)
             => \A c \in Identities, ok, oc \in BOOLEAN :
                   PrivateTransferBy(c, 1, ok, oc)
                       => (last'.result = "InsufficientBalance"
                           /\ vault' = vault)]_vars

\* A private_transfer has just failed with InsufficientBalance on a delegated
\* vault with balance 0.
C9_Witness ==
    /\ last = [op |-> "private_transfer", result |-> "InsufficientBalance"]
    /\ vault.is_delegated
    /\ vault.balance = 0

\* C10: private_transfer on a vault whose is_delegated flag is false fails
\* with NotDelegated for every caller and every amount and changes neither
\* balance nor nonce.
C10_TransferLocalNotDelegated ==
    [][(Submits("private_transfer") /\ ~vault.is_delegated)
          => /\ last'.result = "NotDelegated"
             /\ vault'.balance = vault.balance
             /\ vault'.nonce = vault.nonce]_vars

\* A private_transfer has just been refused on a vault that is not delegated
\* and holds a balance.
C10_Witness ==
    /\ last = [op |-> "private_transfer", result |-> "NotDelegated"]
    /\ ~vault.is_delegated
    /\ vault.balance > 0

\* The delegation flags of a vault record.
Flags(v) == <<v.is_delegated, v.delegate_validator, v.is_private>>

\* The flags of state Local.
LocalFlags == <<FALSE, ZeroKey, FALSE>>

\* C11: a successful undelegate_vault ends with is_delegated = FALSE,
\* delegate_validator = zero key and is_private = FALSE whatever the flags
\* were before, leaves balance and nonce unchanged, and applying it a second
\* time gives the same flags as applying it once.
C11_UndelegateResets ==
    [][(Submits("undelegate_vault") /\ last'.result = "Ok")
          => /\ Flags(vault') = LocalFlags
             /\ vault'.balance = vault.balance
             /\ vault'.nonce = vault.nonce
             /\ \A c \in Identities :
                   Flags(undelegate_vault(vault', c, now, TRUE).vault)
                       = Flags(vault')]_vars

\* An undelegate_vault has just succeeded on a vault that holds a balance and
\* has made a private transfer.
C11_Witness ==
    /\ last = [op |-> "undelegate_vault", result |-> "Ok"]
    /\ vault.balance > 0
    /\ vault.nonce > 0

\* C12: in every reachable state is_private = TRUE implies
\* is_delegated = TRUE.
C12_PrivateImpliesDelegated ==
    vault.is_private => vault.is_delegated

\* The vault is private, and still so after an instruction other than the
\* delegate_vault that made it private.
C12_Witness ==
    /\ vault.is_private
    /\ vault.is_delegated
    /\ last = [op |-> "private_transfer", result |-> "Ok"]

\* C13 (as claimed): create_permission by a caller other than the vault's
\* owner fails with Unauthorized and creates no PermissionRecord; every
\* PermissionRecord has granted_by equal to the owner of its vault.
C13_NonOwnerUnauthorized ==
    [][/\ Submits("create_permission")
             => \A c \in Identities, k \in Permitted :
                   (CreatePermissionBy(c, k) /\ c # vault.owner)
                       => (last'.result = "Unauthorized" /\ perms' = perms)
       /\ \A p \in perms' : p.granted_by = vault'.owner]_vars

\* C13 (amended): create_permission by a caller other than the vault's owner
\* always fails and creates no PermissionRecord; the error is Unauthorized
\* when no record for (vault, permitted) exists yet and the allocation
\* failure of `init` when one exists; every PermissionRecord has granted_by
\* equal to the owner of its vault.
C13_NonOwnerRefused ==
    [][/\ Submits("create_permission")
             => \A c \in Identities, k \in Permitted :
                   (CreatePermissionBy(c, k) /\ c # vault.owner)
                       => /\ last'.result =
                                IF PermissionExists(perms, vault, k)
                                THEN "AlreadyInUse" ELSE "Unauthorized"
                          /\ perms' = perms
       /\ \A p \in perms' : p.granted_by = vault'.owner]_vars

\* A create_permission has just been refused as Unauthorized while no
\* permission exists.
C13_Witness ==
    /\ last = [op |-> "create_permission", result |-> "Unauthorized"]
    /\ perms = {}

\* C14: at most one PermissionRecord exists per (vault, permitted) pair; a
\* create_permission for a pair that has a record fails and leaves the
\* records unchanged; no step removes or modifies a record.
C14_OnePermissionPerPair ==
    [][/\ \A p, q \in perms' :
             (p.vault = q.vault /\ p.permitted = q.permitted) => p = q
       /\ perms \subseteq perms'
       /\ Submits("create_permission")
             => \A c \in Identities, k \in Permitted :
                   (CreatePermissionBy(c, k) /\ PermissionExists(perms, vault, k))
                       => (last'.result # "Ok" /\ perms' = perms)]_vars

\* A second create_permission for an existing pair has just been refused,
\* later than the grant of the record that exists.
C14_Witness ==
    /\ last = [op |-> "create_permission", result |-> "AlreadyInUse"]
    /\ \E p \in perms : p.granted_at < now

\* C15: arithmetic on balance and nonce never wraps: a deposit that would
\* take balance above the largest u64, and a private_transfer executed when
\* nonce is the largest u64, abort and leave balance and nonce unchanged.
C15_NoWrap ==
    [][/\ Submits("deposit")
             => \A c \in Identities, a \in U64, ok \in BOOLEAN :
                   (DepositBy(c, a, ok) /\ vault.balance + a > MaxU64)
                       => /\ last'.result # "Ok"
                          /\ vault'.balance = vault.balance
                          /\ vault'.nonce = vault.nonce
       /\ (Submits("private_transfer") /\ vault.nonce = MaxU64)
             => /\ last'.result # "Ok"
                /\ vault'.balance = vault.balance
                /\ vault'.nonce = vault.nonce]_vars

\* C16: once is_delegated is true it stays true through every step except
\* a successful undelegate_vault or a successful private_transfer.
C16_DelegatedUntilUndelegate ==
    [][(vault.is_delegated /\ ~vault'.is_delegated)
          => /\ Submits("undelegate_vault") \/ Submits("private_transfer")
             /\ last'.result = "Ok"]_vars

\* A commit_vault_state has just succeeded on a vault that is still
\* delegated after a private transfer.
C16_Witness ==
    /\ last = [op |-> "commit_vault_state", result |-> "Ok"]
    /\ vault.is_delegated
    /\ vault.nonce > 0

\* C17: delegate_vault on a vault that is already delegated is not rejected:
\* it succeeds whenever the Delegation Service call does, keeps
\* is_delegated = TRUE, stores the new validator and leaves balance and
\* nonce unchanged.
C17_RedelegateAccepted ==
    [][(Submits("delegate_vault") /\ vault.is_delegated)
          => \A c \in Identities, k \in Validators, ok \in BOOLEAN :
                DelegateVaultBy(c, k, ok)
                    => /\ last'.result = IF ok THEN "Ok"
                                         ELSE "ExternalCallFailed"
                       /\ ok => /\ vault'.is_delegated
                                /\ vault'.delegate_validator = k
                                /\ vault'.balance = vault.balance
                                /\ vault'.nonce = vault.nonce]_vars

\* A delegate_vault has just succeeded with the plain validator on a vault
\* that was already delegated (is_private is left from the delegation to
\* the TEE validator).
C17_Witness ==
    /\ last = [op |-> "delegate_vault", result |-> "Ok"]
    /\ vault.delegate_validator = PlainKey
    /\ vault.is_private

\* C18: the recorded balance never exceeds the native asset held for the
\* vault (deposited minus withdrawn lamports), so a withdraw that passes the
\* balance check never takes out more than the deposits put in.
C18_BalanceBacked ==
    /\ vault.balance <= lamports
    /\ lamports >= 0
    /\ \A a \in U64 :
          withdraw(vault, vault.owner, a, now).res = "Ok" => a <= lamports

\* A withdraw has just succeeded on a vault that still holds more lamports
\* than its recorded balance (the rest left the balance in a private
\* transfer).
C18_Witness ==
    /\ last = [op |-> "withdraw", result |-> "Ok"]
    /\ vault.balance > 0
    /\ vault.balance < lamports

\* C19: balance decreases only in a successful withdraw or private_transfer,
\* and such a step is never one submitted by an identity other than
\* vault.owner; no step on an existing vault changes owner or vault_id.
C19_OnlyOwnerLowersBalance ==
    [][vault.initialized
          => /\ vault'.owner = vault.owner
             /\ vault'.vault_id = vault.vault_id
             /\ vault'.balance < vault.balance
                   => /\ Submits("withdraw") \/ Submits("private_transfer")
                      /\ last'.result = "Ok"
             /\ (Submits("withdraw") /\ last'.result = "Ok")
                   => \A c \in Identities \ {vault.owner}, a \in U64 :
                         ~WithdrawBy(c, a)
             /\ TransferSucceeds
                   => \A c \in Identities \ {vault.owner}, a \in U64,
                         ok \in BOOLEAN, checks \in BOOLEAN :
                         ~PrivateTransferBy(c, a, ok, checks)]_vars

\* A private_transfer by a non-owner has just been refused on a delegated
\* vault whose balance covers every amount.
C19_Witness ==
    /\ last = [op |-> "private_transfer", result |-> "Unauthorized"]
    /\ vault.is_delegated
    /\ vault.balance = MaxU64

\* C20: the owner can recover the funds: once undelegate_vault succeeds
\* (from any reachable state of the vault, its only failure being the
\* Delegation Service call), a withdraw by the owner of any amount up to
\* the whole balance is accepted and reduces balance by that amount.
C20_OwnerRecoversFunds ==
    vault.initialized
        => LET u == Run(vault, SignerOnly(vault, vault.owner),
                        undelegate_vault(vault, vault.owner, now, TRUE))
               s == IF last = [op |-> "undelegate_vault", result |-> "Ok"]
                    THEN vault ELSE Persist(vault, u)
           IN  /\ u.res = "Ok"
               /\ \A a \in 0..s.balance :
                     LET w == Run(s, WithdrawAccounts(s, s.owner),
                                  withdraw(s, s.owner, a, now))
                     IN  /\ w.res = "Ok"
                         /\ Persist(s, w).balance = s.balance - a
                         /\ a <= lamports

\* The owner has just withdrawn the rest of the balance of a vault that had
\* been delegated, used for a private transfer and undelegated.
C20_Witness ==
    /\ last = [op |-> "withdraw", result |-> "Ok"]
    /\ vault.nonce > 0
    /\ vault.balance = 0
    /\ lamports > 0

====
